---- MODULE Spec2Model ----
(***************************************************************************)
(* Scoped-node tree of the `rooting` crate: El / El_ (src/src/el.rs), the  *)
(* ref_remove operation of the earlier module variant (src/src/lib.rs) and *)
(* the DOM primitives these operations call.                               *)
(*                                                                         *)
(* A node is an Rc<RefCell<El_>>.  `held` says whether the application     *)
(* still owns a strong handle (an El clone) to the node; `alive` is the    *)
(* set of nodes whose strong count is positive.  The DOM is kept as the    *)
(* element-children list of every element, which is what                   *)
(* Element::children() reports.  A panic (unwrap/expect on a DOM error, a  *)
(* RefCell double borrow, a Vec range check) freezes the state as it is at *)
(* the point of failure.                                                   *)
(***************************************************************************)
EXTENDS Integers, Sequences, FiniteSets, TLC

\* ---------------------------------------------------------------- bounds
NumNodes == 3
NumFresh == 1
MaxChildren == 2
MaxAdd == 2
MaxCalls == 3
NumCells == 2
MaxSteps == 4
MaxOther == 1
MaxEntries == 3
NumTasks == 2          \* futures handed to spawn_rooted
MaxYields == 1         \* times a future is Pending before it is Ready
NumTargets == 2        \* elements handed to ResizeObserver::observe
NumHandles == 3        \* ObserveHandles made
MaxClones == 2         \* clones of the ResizeObserver held at a time

\* The nodes el() makes: NumNodes of them, and one more for the el of a
\* Container where there is one.
Nodes == 1..(NumNodes + 1)
Anchor == NumNodes + 1
FirstFresh == NumNodes + 2
\* The elements of the nodes, the fresh elements create_element hands out,
\* document().body() and an element the page's html declares with an id.
Body == FirstFresh + NumFresh
Placeholder == FirstFresh + NumFresh + 1
Elems == 1..(FirstFresh + NumFresh + 1)
\* The values handed to own / listen (each runs a teardown when dropped);
\* NoCell marks a ScopeValue without one.
Cells == 1..NumCells
Tasks == 1..NumTasks
Targets == 1..NumTargets
Handles == 1..NumHandles
NoCell == 0
\* Option::None for a parent reference, and "no element" for a DOM lookup.
None == 0
NoEl == 0

VARIABLES
    el,                \* El_.el: the element handle of each node
    parent,            \* El_.parent: None or the node the Weak points to
    index_in_parent,   \* El_.index_in_parent
    children,          \* El_.children: Vec<El>
    local,             \* El_.local: Vec<ScopeValue>
    dom,               \* element children of every element (Element::children)
    nextEl,            \* next element document().create_element returns
    held,              \* the application owns an El handle to the node
    alive,             \* nodes with a positive strong count
    panicked,          \* a panic has been raised
    last,              \* the most recent call and its arguments
    calls,             \* number of calls made so far
    limit,             \* number of calls the application makes at most
    torn,              \* how often the teardown of each own / listen value ran
    nextCell,          \* the next value own / listen is handed
    root,              \* ROOT: the ScopeValue in the root slot
    drops,             \* what the most recent call dropped, in order
    container,         \* the Container: its el and the nodes of its entries
    before,            \* the container as Container::push found it
    returned,          \* what Container::pop / remove returned
    tasks,             \* the futures spawn_rooted spawned and their channels
    observer,          \* the ResizeObserver_ and the strong count of its Rc
    handles,           \* the ObserveHandles
    callback           \* the target the most recent step called cb for

vars == <<el, parent, index_in_parent, children, local, dom, nextEl, held,
          alive, panicked, last, calls, limit, torn, nextCell, root, drops,
          container, before, returned, tasks, observer, handles, callback>>

\* ------------------------------------------------------- sequence helpers
Range(s) == {s[i] : i \in 1..Len(s)}

Count(s, x) == Cardinality({i \in 1..Len(s) : s[i] = x})

IndexOf(s, x) == CHOOSE i \in 1..Len(s) : s[i] = x /\ \A j \in 1..(i - 1) : s[j] # x

Without(s, x) == SelectSeq(s, LAMBDA y : y # x)

InsertAt(s, pos, x) == SubSeq(s, 1, pos - 1) \o <<x>> \o SubSeq(s, pos, Len(s))

\* Sequences over S of length at most n.
SeqsUpTo(S, n) == UNION {[1..k -> S] : k \in 0..n}

\* a sequence with only the last occurrence of every element kept
RECURSIVE KeepLast(_)
KeepLast(s) ==
    IF s = <<>> THEN <<>>
    ELSE IF Head(s) \in Range(Tail(s)) THEN KeepLast(Tail(s))
         ELSE <<Head(s)>> \o KeepLast(Tail(s))

\* ------------------------------------------------------------ DOM surface
\* Node.parentNode of element e in DOM d.
DomParent(d, e) ==
    IF \E q \in Elems : e \in Range(d[q])
    THEN CHOOSE q \in Elems : e \in Range(d[q])
    ELSE NoEl

\* a is an inclusive ancestor of e in DOM d.
RECURSIVE DomInclusiveAncestor(_, _, _)
DomInclusiveAncestor(d, a, e) ==
    \/ a = e
    \/ /\ DomParent(d, e) # NoEl
       /\ DomInclusiveAncestor(d, a, DomParent(d, e))

\* Element::remove(): e leaves its parent's child list.
DomRemove(d, e) == [q \in Elems |-> Without(d[q], e)]

\* HtmlCollection::get_with_index(i) on the live collection par.children().
get_with_index(d, par, i) == IF i < Len(d[par]) THEN d[par][i + 1] ELSE NoEl

\* Node::insert_before(node, ref) on par (ref = NoEl appends).  The DOM raises
\* HierarchyRequestError when node is an inclusive ancestor of par and
\* NotFoundError when ref is not a child of par; otherwise node is first taken
\* out of its old parent.  A ref equal to node stands for node's next sibling.
DomInsertBefore(d, par, node, ref) ==
    IF DomInclusiveAncestor(d, node, par) THEN [ok |-> FALSE, dom |-> d]
    ELSE IF ref # NoEl /\ ref \notin Range(d[par]) THEN [ok |-> FALSE, dom |-> d]
    ELSE LET ref1 == IF ref # node THEN ref
                     ELSE LET k == IndexOf(d[par], node)
                          IN IF k < Len(d[par]) THEN d[par][k + 1] ELSE NoEl
             d1 == DomRemove(d, node)
             pos == IF ref1 = NoEl THEN Len(d1[par]) + 1 ELSE IndexOf(d1[par], ref1)
         IN [ok |-> TRUE, dom |-> [d1 EXCEPT ![par] = InsertAt(d1[par], pos, node)]]

\* Node::set_text_content(None): every child of e is removed.
DomSetTextContentNone(d, e) == [d EXCEPT ![e] = <<>>]

\* ChildNode::replaceWith(nodes) on element this.  Without a parent nothing
\* happens.  Several nodes (or none) are first moved into a fragment, one
\* node is used as it is; a node that is an inclusive ancestor of the parent
\* raises HierarchyRequestError.  Otherwise the nodes take this's place,
\* before the first following sibling that is not one of them.
DomReplaceWith(d, this, nodes) ==
    LET par == DomParent(d, this) IN
    IF par = NoEl THEN [ok |-> TRUE, dom |-> d]
    ELSE
      LET k == IndexOf(d[par], this)
          following == SubSeq(d[par], k + 1, Len(d[par]))
          viable == SelectSeq(following, LAMBDA x : x \notin Range(nodes))
          viableNext == IF viable = <<>> THEN NoEl ELSE Head(viable)
          frag == KeepLast(nodes)
          \* the nodes leave their old parents when the fragment is built
          moved == [q \in Elems |-> SelectSeq(d[q], LAMBDA x : x \notin Range(nodes))]
          bad == \E i \in 1..Len(nodes) : DomInclusiveAncestor(d, nodes[i], par)
      IN IF bad
         THEN [ok |-> FALSE, dom |-> IF Len(nodes) = 1 THEN d ELSE moved]
         ELSE LET d1 == [moved EXCEPT ![par] = Without(moved[par], this)]
                  pos == IF viableNext = NoEl THEN Len(d1[par]) + 1
                         ELSE IndexOf(d1[par], viableNext)
              IN [ok |-> TRUE,
                  dom |-> [d1 EXCEPT ![par] =
                             SubSeq(d1[par], 1, pos - 1) \o frag
                               \o SubSeq(d1[par], pos, Len(d1[par]))]]

\* ------------------------------------------------------------------ El_
\* The heap as one value, so that the steps of an operation compose.
Heap == [el |-> el, parent |-> parent, index_in_parent |-> index_in_parent,
         children |-> children, local |-> local, dom |-> dom,
         nextEl |-> nextEl, panic |-> FALSE,
         torn |-> torn, nextCell |-> nextCell, root |-> root,
         log |-> <<>>, container |-> container, returned |-> None,
         tasks |-> tasks, borrowed |-> {}]

Panic(s) == [s EXCEPT !.panic = TRUE]

\* splice, "Remove existing dom children": k times remove the element now at
\* offset; unwrap() panics when there is none.
RECURSIVE splice_remove_dom(_, _, _, _)
splice_remove_dom(s, self, offset, k) ==
    IF k = 0 THEN s
    ELSE LET c == get_with_index(s.dom, s.el[self], offset)
         IN IF c = NoEl THEN Panic(s)
            ELSE splice_remove_dom([s EXCEPT !.dom = DomRemove(s.dom, c)],
                                   self, offset, k - 1)

\* splice, "Add new dom children + update parent state": for add[i..]:
\* borrow_mut the child (panics when the child is self, which is borrowed),
\* set parent and index_in_parent, insert_before(insert_ref).unwrap().
RECURSIVE splice_add(_, _, _, _, _, _)
splice_add(s, self, offset, add, i, insert_ref) ==
    IF i > Len(add) THEN s
    ELSE LET c == add[i] IN
         IF c = self THEN Panic(s)
         ELSE LET s1 == [s EXCEPT !.parent[c] = self,
                                  !.index_in_parent[c] = offset + (i - 1)]
                  r == DomInsertBefore(s1.dom, s1.el[self], s1.el[c], insert_ref)
              IN IF ~r.ok THEN Panic(s1)
                 ELSE splice_add([s1 EXCEPT !.dom = r.dom],
                                 self, offset, add, i + 1, insert_ref)

\* index_in_parent after `for i in from .. kids.len() { kids[i].index = i }`
Renumber(idx, kids, from) ==
    [n \in Nodes |->
        IF \E i \in (from + 1)..Len(kids) : kids[i] = n
        THEN (CHOOSE i \in (from + 1)..Len(kids) :
                 kids[i] = n /\ \A j \in (i + 1)..Len(kids) : kids[j] # n) - 1
        ELSE idx[n]]

\* splice, "Splice scope children" to the end: Vec::splice panics on a range
\* past the end; the removed children lose their parent state; the children
\* after the added ones are renumbered.
splice_scope(s, self, offset, remove, add) ==
    LET old == s.children[self] IN
    IF offset + remove > Len(old) THEN Panic(s)
    ELSE LET removed == SubSeq(old, offset + 1, offset + remove)
             new == SubSeq(old, 1, offset) \o add
                      \o SubSeq(old, offset + remove + 1, Len(old))
             par1 == [n \in Nodes |-> IF n \in Range(removed) THEN None
                                      ELSE s.parent[n]]
             idx1 == [n \in Nodes |-> IF n \in Range(removed) THEN 0
                                      ELSE s.index_in_parent[n]]
         IN [s EXCEPT !.children[self] = new,
                      !.parent = par1,
                      !.index_in_parent = Renumber(idx1, new, offset + Len(add))]

\* El_::splice
El_splice(s, self, offset, remove, add) ==
    LET s1 == splice_remove_dom(s, self, offset, remove) IN
    IF s1.panic THEN s1
    ELSE LET insert_ref == get_with_index(s1.dom, s1.el[self], offset)
             s2 == splice_add(s1, self, offset, add, 1, insert_ref)
         IN IF s2.panic THEN s2
            ELSE splice_scope(s2, self, offset, remove, add)

\* El_::clear
El_clear(s, self) ==
    [s EXCEPT !.dom = DomSetTextContentNone(s.dom, s.el[self]),
              !.children[self] = <<>>]

\* El_::extend: the loop is splice's add loop with append_child, then
\* Vec::extend.
El_extend(s, self, add) ==
    LET offset == Len(s.children[self])
        s1 == splice_add(s, self, offset, add, 1, NoEl)
    IN IF s1.panic THEN s1
       ELSE [s1 EXCEPT !.children[self] = s1.children[self] \o add]

\* Weak::upgrade of a node's parent reference: the parent, or None.
parent_upgrade(s, al, n) ==
    IF s.parent[n] # None /\ s.parent[n] \in al THEN s.parent[n] ELSE None

\* WeakEl::upgrade of a handle El::weak made for node w: the node, or None.
WeakEl_upgrade(al, w) == IF w \in al THEN w ELSE None

\* ------------------------------------------------- ownership (Rc counts)
\* What a ScopeValue can wrap: a vector of nodes (or one node), a value
\* handed to own / listen whose Drop runs teardown `cell`, or ().
VecEl(els) == [els |-> els, cell |-> NoCell]

Guard(k) == [els |-> <<>>, cell |-> k]

Unit == [els |-> <<>>, cell |-> NoCell]

\* scope_any(value): the value boxed as a ScopeValue.
scope_any(value) == [value |-> value]

\* Ownership with the parent reference held strongly (an Rc instead of a
\* Weak): a live child keeps its parent alive.
Owned_strong_parent(s, h, al, n) ==
    \/ h[n]
    \/ n \in Range(s.root.value.els)
    \/ n = s.container.el \/ n \in Range(s.container.entries)
    \/ \E p \in al :
          \/ n \in Range(s.children[p])
          \/ \E i \in 1..Len(s.local[p]) : n \in Range(s.local[p][i].value.els)
          \/ s.parent[p] = n

\* Ownership with the children held weakly: only handles, local values and
\* the root slot keep a node alive.
Owned_weak_children(s, h, al, n) ==
    \/ h[n]
    \/ n \in Range(s.root.value.els)
    \/ n = s.container.el \/ n \in Range(s.container.entries)
    \/ \E p \in al :
          \E i \in 1..Len(s.local[p]) : n \in Range(s.local[p][i].value.els)

\* The strong count of n is positive: the application holds a handle, or a
\* live node owns n through its children or its local values, or the root
\* slot owns it.
Owned(s, h, al, n) ==
    \/ h[n]
    \/ n \in Range(s.root.value.els)
    \/ n = s.container.el \/ n \in Range(s.container.entries)
    \/ \E p \in al :
          \/ n \in Range(s.children[p])
          \/ \E i \in 1..Len(s.local[p]) : n \in Range(s.local[p][i].value.els)

\* A drop that does not cascade: only the nodes nobody owns at the end of the
\* call are freed, what they owned is left behind.
Sweep_once(s, h, al) == al \ {n \in al : ~Owned(s, h, al, n)}

\* Dropping cascades: a node whose count reached zero drops its children
\* and local values, which may bring further counts to zero.
RECURSIVE Sweep(_, _, _)
Sweep(s, h, al) ==
    LET dead == {n \in al : ~Owned(s, h, al, n)}
    IN IF dead = {} THEN al ELSE Sweep(s, h, al \ dead)

\* The heap once the nodes outside al are freed.
Reap(s, al) ==
    [s EXCEPT !.children = [n \in Nodes |-> IF n \in al THEN s.children[n] ELSE <<>>],
              !.local = [n \in Nodes |-> IF n \in al THEN s.local[n] ELSE <<>>],
              !.parent = [n \in Nodes |-> IF n \in al THEN s.parent[n] ELSE None],
              !.index_in_parent =
                  [n \in Nodes |-> IF n \in al THEN s.index_in_parent[n] ELSE 0]]

\* A drop event: the element handle of node id is released ("el"), or the
\* teardown of own / listen value id runs ("cell").
Ev(kind, id) == [kind |-> kind, id |-> id]

CountEv(log, e) == Cardinality({i \in 1..Len(log) : log[i] = e})

\* Drop of a ScopeValue's content inside an operation: its teardown runs.
\* (The nodes it owned are released with the sweep at the end of the call.)
drop_value(s, v) ==
    IF v.value.cell = NoCell THEN s
    ELSE [s EXCEPT !.torn[v.value.cell] = @ + 1,
                   !.log = Append(@, Ev("cell", v.value.cell))]

RECURSIVE drop_values(_, _)
drop_values(s, vals) ==
    IF vals = <<>> THEN s
    ELSE drop_values(drop_value(s, Head(vals)), Tail(vals))

\* The number of strong references the nodes of D hold to n.
RefsFrom(s, D, n) ==
    Cardinality(UNION {{<<p, i>> : i \in {j \in 1..Len(s.children[p]) :
                                            s.children[p][j] = n}} : p \in D})
    + Cardinality(UNION {UNION {{<<p, i, j>> :
                                    j \in {k \in 1..Len(s.local[p][i].value.els) :
                                              s.local[p][i].value.els[k] = n}} :
                                 i \in 1..Len(s.local[p])} : p \in D})

\* Drop of an El_ whose strong count reached zero.  No Drop is implemented
\* for El_, so its fields are dropped in declaration order: el, parent,
\* index_in_parent, children, local.  Dropping a child or a node of a local
\* value releases one reference to it and drops it in turn when that was the
\* last one.  st = [rc, log]: the references still held by the nodes being
\* freed, and the events so far.
RECURSIVE drop_El_(_, _, _, _), drop_local(_, _, _, _), release(_, _, _, _)
\* A drop that releases the children and the local values first and the
\* element handle last (a Drop implementation taking the fields in reverse).
drop_El_el_last(s, D, st, n) ==
    LET st1 == release(s, D, st, s.children[n])
        st2 == drop_local(s, D, st1, s.local[n])
    IN [st2 EXCEPT !.log = Append(@, Ev("el", n))]

drop_El_(s, D, st, n) ==
    LET st1 == [st EXCEPT !.log = Append(@, Ev("el", n))]
        st2 == release(s, D, st1, s.children[n])
    IN drop_local(s, D, st2, s.local[n])

drop_local(s, D, st, loc) ==
    IF loc = <<>> THEN st
    ELSE LET v == Head(loc).value
             st1 == IF v.cell = NoCell THEN st
                    ELSE [st EXCEPT !.log = Append(@, Ev("cell", v.cell))]
         IN drop_local(s, D, release(s, D, st1, v.els), Tail(loc))

release(s, D, st, els) ==
    IF els = <<>> THEN st
    ELSE LET c == Head(els)
             st1 == [st EXCEPT !.rc[c] = @ - 1]
             st2 == IF c \in D /\ st1.rc[c] = 0 THEN drop_El_(s, D, st1, c)
                    ELSE st1
         IN release(s, D, st2, Tail(els))

\* The drops of a call's end: every node of D that nothing of D refers to
\* has lost its last owner and is dropped; the others follow in the cascade.
RECURSIVE drop_roots(_, _, _, _)
drop_roots(s, D, st, todo) ==
    IF todo = {} THEN st
    ELSE LET n == CHOOSE m \in todo : \A k \in todo : m <= k
         IN drop_roots(s, D, drop_El_(s, D, st, n), todo \ {n})

drop_all(s, D) ==
    LET rc == [n \in Nodes |-> RefsFrom(s, D, n)]
    IN drop_roots(s, D, [rc |-> rc, log |-> <<>>], {n \in D : rc[n] = 0}).log

\* What Container::push finds: the entries, the children of the container's
\* el on both sides, and whether the entry's node is detached.
NoSnapshot ==
    [entries |-> <<>>, children |-> <<>>, dom |-> <<>>, detached |-> FALSE]

Snapshot(entry) ==
    [entries |-> container.entries,
     children |-> children[container.el],
     dom |-> dom[el[container.el]],
     detached |-> /\ parent[entry] = None
                  /\ \A p \in alive : entry \notin Range(children[p])]

Call(op, self, offset, remove, add) ==
    [op |-> op, self |-> self, offset |-> offset, remove |-> remove, add |-> add]

\* The end of a call: the heap s it produced, the handles h the application
\* keeps.  Unless the call panicked, what lost its last owner is freed.
Commit(s, h, call) ==
    LET al == IF s.panic THEN alive ELSE Sweep(s, h, alive)
        log == IF s.panic THEN <<>> ELSE drop_all(s, alive \ al)
        s1 == IF s.panic THEN s ELSE Reap(s, al)
    IN /\ el' = s1.el
       /\ parent' = s1.parent
       /\ index_in_parent' = s1.index_in_parent
       /\ children' = s1.children
       /\ local' = s1.local
       /\ dom' = s1.dom
       /\ nextEl' = s1.nextEl
       /\ held' = h
       /\ alive' = al
       /\ panicked' = s.panic
       /\ last' = call
       /\ calls' = calls + 1
       /\ limit' = limit
       /\ torn' = [k \in Cells |-> s.torn[k] + CountEv(log, Ev("cell", k))]
       /\ nextCell' = s1.nextCell
       /\ root' = s1.root
       /\ drops' = s.log \o log
       /\ container' = s1.container
       /\ returned' = s1.returned
       /\ tasks' = s1.tasks
       /\ UNCHANGED <<observer, handles, callback>>
       /\ before' = IF call.op = "Container_push" THEN Snapshot(call.add[1])
                    ELSE NoSnapshot

\* A caller can use and pass the nodes it holds a handle to (it passes
\* clones, and gives its own handle up with drop_El).
Usable(n) == n \in alive /\ held[n]

\* The application may make another call.
Running == ~panicked /\ calls < limit

Args == {a \in SeqsUpTo(Nodes, MaxAdd) : \A i \in 1..Len(a) : Usable(a[i])}

Args1 == {a \in Args : Len(a) <= MaxOther}

\* No future has been handed to spawn_rooted.
NoTask ==
    [pc |-> "none", woken |-> FALSE, need |-> 0, complete_rx |-> "none",
     cell |-> NoCell, complete_tx |-> "none", data |-> "none",
     branch |-> "none", sent |-> "none", both |-> FALSE, polls |-> 0,
     got |-> "none"]

\* ResizeObserver::new has not been called.
NoObserver ==
    [rc |-> 0, _js_cb |-> "none", js_resize_observer |-> {}, unobserved |-> 0]

\* ResizeObserver::observe has not made this handle.
NoHandle == [at |-> "none", target |-> None]

\* ------------------------------------------------------------------- El
\* No Container has been made.
NoContainer == [el |-> None, entries |-> <<>>]

Start(lim, cont) ==
    /\ el = [n \in Nodes |-> n]
    /\ parent = [n \in Nodes |-> None]
    /\ index_in_parent = [n \in Nodes |-> 0]
    /\ children = [n \in Nodes |-> <<>>]
    /\ local = [n \in Nodes |-> <<>>]
    /\ dom = [e \in Elems |-> IF e = Body THEN <<Placeholder>> ELSE <<>>]
    /\ nextEl = FirstFresh
    /\ held = [n \in Nodes |-> n <= NumNodes \/ n = cont.el]
    /\ alive = {n \in Nodes : n <= NumNodes \/ n = cont.el}
    /\ panicked = FALSE
    /\ last = Call("el", None, 0, 0, <<>>)
    /\ calls = 0
    /\ limit = lim
    /\ torn = [k \in Cells |-> 0]
    /\ nextCell = 1
    /\ root = scope_any(Unit)
    /\ drops = <<>>
    /\ before = NoSnapshot
    /\ returned = None
    /\ container = cont
    /\ tasks = [t \in Tasks |-> NoTask]
    /\ observer = NoObserver
    /\ handles = [h \in Handles |-> NoHandle]
    /\ callback = None

Init == Start(MaxCalls, NoContainer)

\* El::push / El::ref_push
ref_push(self, c) ==
    /\ Running
    /\ Usable(self) /\ Usable(c)
    /\ Len(children[self]) < MaxChildren
    /\ Commit(El_extend(Heap, self, <<c>>), held, Call("ref_push", self, 0, 0, <<c>>))

\* El::extend / El::ref_extend
ref_extend(self, add) ==
    /\ Running
    /\ Usable(self)
    /\ Len(children[self]) + Len(add) <= MaxChildren
    /\ Commit(El_extend(Heap, self, add), held, Call("ref_extend", self, 0, 0, add))

\* El::ref_splice
ref_splice(self, offset, remove, add) ==
    /\ Running
    /\ Usable(self)
    /\ Len(children[self]) + Len(add) <= MaxChildren + remove
    /\ Commit(El_splice(Heap, self, offset, remove, add), held,
              Call("ref_splice", self, offset, remove, add))

\* El::ref_clear
ref_clear(self) ==
    /\ Running
    /\ Usable(self)
    /\ Commit(El_clear(Heap, self), held, Call("ref_clear", self, 0, 0, <<>>))

\* The pseudo-replacement with `self1.local.clear()` left out.
pseudo_replace_keeps_local(s, self, other) ==
    LET s1 == [s EXCEPT !.children[self] = <<>>,
                        !.local[self] = Append(@, scope_any(VecEl(other)))]
    IN IF self \in Range(other) THEN Panic(s1)
       ELSE LET r == DomReplaceWith(s1.dom, s1.el[self],
                                    [i \in 1..Len(other) |-> s1.el[other[i]]])
            IN IF ~r.ok THEN Panic([s1 EXCEPT !.dom = r.dom])
               ELSE [s1 EXCEPT !.dom = r.dom,
                               !.el[self] = s1.nextEl,
                               !.nextEl = s1.nextEl + 1]

\* El::ref_replace, the pseudo-replacement branch (no parent to upgrade).
\* x.raw() borrows every replacement, which panics for self (borrowed
\* mutably); expect() panics on a DOM error.
pseudo_replace(s, self, other) ==
    LET s0 == drop_values(s, s.local[self])
        s1 == [s0 EXCEPT !.children[self] = <<>>,
                         !.local[self] = <<scope_any(VecEl(other))>>]
    IN IF self \in Range(other) THEN Panic(s1)
       ELSE LET r == DomReplaceWith(s1.dom, s1.el[self],
                                    [i \in 1..Len(other) |-> s1.el[other[i]]])
            IN IF ~r.ok THEN Panic([s1 EXCEPT !.dom = r.dom])
               ELSE [s1 EXCEPT !.dom = r.dom,
                               !.el[self] = s1.nextEl,
                               !.nextEl = s1.nextEl + 1]

\* El::ref_replace
El_ref_replace(s, al, self, other) ==
    LET el_parent == parent_upgrade(s, al, self) IN
    IF el_parent # None
    THEN El_splice(s, el_parent, s.index_in_parent[self], 1, other)
    ELSE pseudo_replace(s, self, other)

ref_replace(self, other) ==
    /\ Running
    /\ Usable(self)
    /\ LET el_parent == parent_upgrade(Heap, alive, self) IN
       IF el_parent # None
       THEN Len(children[el_parent]) + Len(other) <= MaxChildren + 1
       ELSE nextEl < FirstFresh + NumFresh
    /\ Commit(El_ref_replace(Heap, alive, self, other), held,
              Call("ref_replace", self, 0, 0, other))

\* El::ref_remove
El_ref_remove(s, al, self) ==
    LET parent1 == parent_upgrade(s, al, self) IN
    IF parent1 = None THEN s
    ELSE El_splice(s, parent1, s.index_in_parent[self], 1, <<>>)

ref_remove(self) ==
    /\ Running
    /\ Usable(self)
    /\ Commit(El_ref_remove(Heap, alive, self), held,
              Call("ref_remove", self, 0, 0, <<>>))

\* The application drops its handle to a node (Drop of an El clone).
drop_El(n) ==
    /\ Running
    /\ Usable(n)
    /\ Commit(Heap, [held EXCEPT ![n] = FALSE], Call("drop", n, 0, 0, <<>>))

Next ==
    \/ \E self \in Nodes, c \in Nodes : ref_push(self, c)
    \/ \E self \in Nodes, add \in Args : ref_extend(self, add)
    \/ \E self \in Nodes, offset \in 0..MaxChildren, remove \in 0..MaxChildren,
          add \in Args : ref_splice(self, offset, remove, add)
    \/ \E self \in Nodes : ref_clear(self)
    \/ \E self \in Nodes, other \in Args : ref_replace(self, other)
    \/ \E self \in Nodes : ref_remove(self)
    \/ \E n \in Nodes : drop_El(n)

Spec == Init /\ [][Next]_vars

\* ------------------------------------------------- resources and the root
\* El::own / El::ref_own: the supplier's value is pushed onto local.
El_own(s, self) ==
    [s EXCEPT !.local[self] = Append(@, scope_any(Guard(s.nextCell))),
              !.nextCell = @ + 1]

ref_own(self) ==
    /\ Running
    /\ Usable(self)
    /\ nextCell <= NumCells
    /\ Commit(El_own(Heap, self), held, Call("ref_own", self, 0, 0, <<>>))

\* El::ref_listen (El::ref_on): the EventListener is pushed onto local; its
\* Drop takes the callback off the element.
ref_listen(self) ==
    /\ Running
    /\ Usable(self)
    /\ nextCell <= NumCells
    /\ Commit(El_own(Heap, self), held, Call("ref_listen", self, 0, 0, <<>>))

\* A root slot that adds the new nodes to the ones it holds instead of
\* replacing them.
ROOT_set_extends(s, v) ==
    [s EXCEPT !.root = scope_any([els |-> s.root.value.els \o v.value.els,
                                   cell |-> v.value.cell])]

\* Cell::set on ROOT: the new value is stored and the old one dropped.
ROOT_set(s, v) == [drop_value(s, s.root) EXCEPT !.root = v]

\* e is in the document.
InDocument(d, e) == DomInclusiveAncestor(d, Body, e)

\* ParentNode::replaceChildren(nodes) on par: the nodes are moved into a
\* fragment, par's children are removed and the fragment is appended.
DomReplaceChildren(d, par, nodes) ==
    LET moved == [q \in Elems |-> SelectSeq(d[q], LAMBDA x : x \notin Range(nodes))]
    IN [moved EXCEPT ![par] = KeepLast(nodes)]

\* set_root_replace(id, el): get_element_by_id(id).unwrap() panics when the
\* document has no such element, unwrap_throw() when the surface refuses.
root_replace(s, id, e) ==
    IF ~InDocument(s.dom, id) THEN Panic(s)
    ELSE LET r == DomReplaceWith(s.dom, id, <<s.el[e]>>)
         IN IF ~r.ok THEN Panic([s EXCEPT !.dom = r.dom])
            ELSE ROOT_set([s EXCEPT !.dom = r.dom], scope_any(VecEl(<<e>>)))

set_root_replace(id, e) ==
    /\ Running
    /\ Usable(e)
    /\ Commit(root_replace(Heap, id, e), held,
              Call("set_root_replace", None, 0, 0, <<e>>))

\* set_root(elements)
root_set(s, elements) ==
    LET d == DomReplaceChildren(s.dom, Body,
                                [i \in 1..Len(elements) |-> s.el[elements[i]]])
    IN ROOT_set([s EXCEPT !.dom = d], scope_any(VecEl(elements)))

set_root(elements) ==
    /\ Running
    /\ Commit(root_set(Heap, elements), held,
              Call("set_root", None, 0, 0, elements))

\* set_root_non_dom(value): value owns the nodes els and, with guard, runs a
\* teardown when dropped.
root_non_dom(s, els, guard) ==
    IF guard
    THEN ROOT_set([s EXCEPT !.nextCell = @ + 1],
                  scope_any([els |-> els, cell |-> s.nextCell]))
    ELSE ROOT_set(s, scope_any(VecEl(els)))

set_root_non_dom(els, guard) ==
    /\ Running
    /\ guard => nextCell <= NumCells
    /\ Commit(root_non_dom(Heap, els, guard), held,
              Call("set_root_non_dom", None, 0, 0, els))

\* The program with resources and the root slot in use.
NextOwn ==
    \/ \E self \in Nodes : ref_own(self)
    \/ \E self \in Nodes : ref_listen(self)
    \/ \E self \in Nodes, c \in Nodes : ref_push(self, c)
    \/ \E self \in Nodes : ref_clear(self)
    \/ \E self \in Nodes, other \in Args1 : ref_replace(self, other)
    \/ \E self \in Nodes : ref_remove(self)
    \/ \E n \in Nodes : drop_El(n)

InitOwn == Start(MaxSteps, NoContainer)

SpecOwn == InitOwn /\ [][NextOwn]_vars

\* The program attaching resources and editing the tree.
NextAttach ==
    \/ \E self \in Nodes : ref_own(self)
    \/ \E self \in Nodes : ref_listen(self)
    \/ \E self \in Nodes, c \in Nodes : ref_push(self, c)
    \/ \E self \in Nodes, add \in Args1 : ref_extend(self, add)
    \/ \E self \in Nodes, offset \in 0..MaxChildren, remove \in 0..MaxChildren,
          add \in Args1 : ref_splice(self, offset, remove, add)
    \/ \E self \in Nodes : ref_clear(self)
    \/ \E self \in Nodes : ref_remove(self)
    \/ \E n \in Nodes : drop_El(n)

SpecAttach == InitOwn /\ [][NextAttach]_vars

\* The program with the root slot in use.
NextRoot ==
    \/ \E self \in Nodes : ref_own(self)
    \/ \E self \in Nodes, c \in Nodes : ref_push(self, c)
    \/ \E n \in Nodes : drop_El(n)
    \/ \E id \in Elems \ {Body}, e \in Nodes : set_root_replace(id, e)
    \/ \E elements \in Args1 : set_root(elements)
    \/ \E els \in Args1, guard \in BOOLEAN : set_root_non_dom(els, guard)

SpecRoot == InitOwn /\ [][NextRoot]_vars

\* ------------------------------------------------------------ Container
\* An entry is known by its backing node (ContainerEntry::el).  Every
\* operation first edits the container's el and then the entries Vec.
\* Container::clear
Container_clear(s) ==
    [El_clear(s, s.container.el) EXCEPT !.container.entries = <<>>]

\* Container::push with the two statements exchanged.
Container_push_entries_first(s, entry) ==
    LET s1 == [s EXCEPT !.container.entries = Append(@, entry)]
    IN El_extend(s1, s1.container.el, <<entry>>)

\* Container::push
Container_push(s, entry) ==
    LET s1 == El_extend(s, s.container.el, <<entry>>)
    IN IF s1.panic THEN s1
       ELSE [s1 EXCEPT !.container.entries = Append(@, entry)]

\* Container::extend
Container_extend(s, entries) ==
    LET s1 == El_extend(s, s.container.el, entries)
    IN IF s1.panic THEN s1
       ELSE [s1 EXCEPT !.container.entries = @ \o entries]

\* Container::insert with the entry pushed at the end of the entries.
Container_insert_appends(s, i, entry) ==
    LET s1 == El_splice(s, s.container.el, i, 0, <<entry>>)
    IN IF s1.panic THEN s1
       ELSE [s1 EXCEPT !.container.entries = Append(@, entry)]

\* Container::insert; Vec::insert panics for an index past the end.
Container_insert(s, i, entry) ==
    LET s1 == El_splice(s, s.container.el, i, 0, <<entry>>)
    IN IF s1.panic THEN s1
       ELSE IF i > Len(s1.container.entries) THEN Panic(s1)
       ELSE [s1 EXCEPT !.container.entries = InsertAt(@, i + 1, entry)]

\* Container::splice, with the Splice it returns dropped by the caller;
\* Vec::splice panics for a range past the end.
Container_splice(s, offset, remove, add) ==
    LET s1 == El_splice(s, s.container.el, offset, remove, add)
        old == s1.container.entries
    IN IF s1.panic THEN s1
       ELSE IF offset + remove > Len(old) THEN Panic(s1)
       ELSE [s1 EXCEPT !.container.entries =
                          SubSeq(old, 1, offset) \o add
                            \o SubSeq(old, offset + remove + 1, Len(old))]

\* Container::pop
Container_pop(s) ==
    LET len == Len(s.container.entries) IN
    IF len > 0
    THEN LET s1 == El_splice(s, s.container.el, len - 1, 1, <<>>)
         IN IF s1.panic THEN s1
            ELSE [s1 EXCEPT !.container.entries = SubSeq(@, 1, len - 1),
                            !.returned = s1.container.entries[len]]
    ELSE [s EXCEPT !.returned = None]

\* Container::remove; Vec::remove panics for an index past the end.
Container_remove(s, i) ==
    LET s1 == El_splice(s, s.container.el, i, 1, <<>>)
        old == s1.container.entries
    IN IF s1.panic THEN s1
       ELSE IF i >= Len(old) THEN Panic(s1)
       ELSE [s1 EXCEPT !.container.entries =
                          SubSeq(old, 1, i) \o SubSeq(old, i + 2, Len(old)),
                       !.returned = old[i + 1]]

\* The handles of the application once an entry is handed back to it.
Handed(s) ==
    IF s.panic \/ s.returned = None THEN held
    ELSE [held EXCEPT ![s.returned] = TRUE]

HasContainer == container.el # None

c_clear ==
    /\ Running /\ HasContainer
    /\ Commit(Container_clear(Heap), held, Call("Container_clear", None, 0, 0, <<>>))

c_push(entry) ==
    /\ Running /\ HasContainer
    /\ Usable(entry)
    /\ Len(container.entries) < MaxEntries
    /\ Commit(Container_push(Heap, entry), held,
              Call("Container_push", None, 0, 0, <<entry>>))

c_extend(entries) ==
    /\ Running /\ HasContainer
    /\ Len(container.entries) + Len(entries) <= MaxEntries
    /\ Commit(Container_extend(Heap, entries), held,
              Call("Container_extend", None, 0, 0, entries))

c_insert(i, entry) ==
    /\ Running /\ HasContainer
    /\ Usable(entry)
    /\ Len(container.entries) < MaxEntries
    /\ Commit(Container_insert(Heap, i, entry), held,
              Call("Container_insert", None, i, 0, <<entry>>))

c_splice(offset, remove, add) ==
    /\ Running /\ HasContainer
    /\ Len(container.entries) + Len(add) <= MaxEntries + remove
    /\ Commit(Container_splice(Heap, offset, remove, add), held,
              Call("Container_splice", None, offset, remove, add))

c_pop ==
    /\ Running /\ HasContainer
    /\ LET s == Container_pop(Heap)
       IN Commit(s, Handed(s), Call("Container_pop", None, 0, 0, <<>>))

c_remove(i) ==
    /\ Running /\ HasContainer
    /\ LET s == Container_remove(Heap, i)
       IN Commit(s, Handed(s), Call("Container_remove", None, i, 0, <<>>))

\* The program using one Container made with node Anchor, through the
\* Container's operations only.
NextContainer ==
    \/ c_clear
    \/ \E entry \in Nodes : c_push(entry)
    \/ \E entries \in Args1 : c_extend(entries)
    \/ \E i \in 0..MaxEntries, entry \in Nodes : c_insert(i, entry)
    \/ \E offset \in 0..MaxEntries, rem \in 0..MaxEntries, add \in Args1 :
          c_splice(offset, rem, add)
    \/ c_pop
    \/ \E i \in 0..MaxEntries : c_remove(i)
    \/ \E n \in Nodes : drop_El(n)

InitContainer == Start(MaxSteps, [el |-> Anchor, entries |-> <<>>])

SpecContainer == InitContainer /\ [][NextContainer]_vars

\* ---------------------------------------------------------- spawn_rooted
\* The Receiver spawn_rooted returned has been dropped: by the caller, or by
\* the teardown of the own value that holds it.
Released(t) ==
    \/ tasks[t].complete_rx = "dropped"
    \/ tasks[t].complete_rx = "cell" /\ torn[tasks[t].cell] > 0

\* spawn_rooted: the channel is made, the future is queued with spawn_local
\* (it is polled later, from the executor), the Receiver is returned.
Spawned(need, where, k) ==
    [NoTask EXCEPT !.pc = "spawned", !.woken = TRUE, !.need = need,
                   !.complete_rx = where, !.cell = k, !.complete_tx = "live"]

\* The caller keeps the Receiver.
spawn_rooted(t, need) ==
    /\ Running
    /\ tasks[t].pc = "none"
    /\ Commit([Heap EXCEPT !.tasks[t] = Spawned(need, "caller", NoCell)],
              held, Call("spawn_rooted", t, 0, 0, <<>>))

\* self.ref_own(|_| spawn_rooted(f)): the Receiver is the value self owns.
ref_own_spawn(self, t, need) ==
    /\ Running
    /\ Usable(self)
    /\ nextCell <= NumCells
    /\ tasks[t].pc = "none"
    /\ Commit([El_own(Heap, self) EXCEPT
                 !.tasks[t] = Spawned(need, "cell", nextCell)],
              held, Call("ref_own_spawn", self, 0, 0, <<>>))

\* The caller drops the Receiver it kept.
drop_rx(t) ==
    /\ Running
    /\ tasks[t].complete_rx = "caller"
    /\ Commit([Heap EXCEPT !.tasks[t].complete_rx = "dropped"],
              held, Call("drop_rx", t, 0, 0, <<>>))

\* A select! whose body arm throws the result of f away.
select_no_send(tk, released, first) ==
    LET cancel == [tk EXCEPT !.pc = "done", !.branch = "cancel",
                             !.complete_tx = "dropped", !.woken = FALSE]
        body == [tk EXCEPT !.pc = "done", !.branch = "body",
                           !.complete_tx = "dropped", !.woken = FALSE,
                           !.polls = @ + 1]
    IN IF released /\ (first = "cancel" \/ tk.need > 0) THEN cancel
       ELSE IF tk.need = 0 THEN body
       ELSE [tk EXCEPT !.woken = FALSE, !.polls = @ + 1]

\* A select! whose body arm does not end the spawned future.
select_no_exit(tk, released, first) ==
    LET cancel == [tk EXCEPT !.pc = "done", !.branch = "cancel",
                             !.complete_tx = "dropped", !.woken = FALSE]
        body == [tk EXCEPT !.branch = "body",
                           !.sent = IF released THEN "err" ELSE "ok",
                           !.data = IF released THEN "none" ELSE "r",
                           !.polls = @ + 1]
    IN IF released /\ (first = "cancel" \/ tk.sent # "none") THEN cancel
       ELSE IF tk.need = 0 /\ tk.sent = "none" THEN body
       ELSE [tk EXCEPT !.woken = FALSE]

\* One poll of the spawned future: select! polls its two arms in an order it
\* picks, the first arm that is Ready runs and the future ends.  The cancel
\* arm is Ready once the Receiver is dropped; the body arm polls f and, when
\* f is Ready, sends the result, which fails when the Receiver is dropped.
select(tk, released, first) ==
    LET race == [tk EXCEPT !.both = released /\ tk.need = 0]
        cancel == [race EXCEPT !.pc = "done", !.branch = "cancel",
                               !.complete_tx = "dropped", !.woken = FALSE]
        body == [race EXCEPT !.pc = "done", !.branch = "body",
                             !.sent = IF released THEN "err" ELSE "ok",
                             !.data = IF released THEN "none" ELSE "r",
                             !.complete_tx = "dropped", !.woken = FALSE,
                             !.polls = @ + 1]
        pending == [tk EXCEPT !.woken = FALSE, !.polls = @ + 1]
    IN IF first = "cancel"
       THEN IF released THEN cancel
            ELSE IF tk.need = 0 THEN body ELSE pending
       ELSE IF tk.need = 0 THEN body
            ELSE IF released THEN [cancel EXCEPT !.polls = @ + 1]
            ELSE pending

\* A step of the executor or of the caller that touches one task only.
TaskStep(t, tk) ==
    /\ tasks' = [tasks EXCEPT ![t] = tk]
    /\ UNCHANGED <<el, parent, index_in_parent, children, local, dom, nextEl,
                   held, alive, panicked, last, calls, limit, torn, nextCell,
                   root, drops, container, before, returned, observer,
                   handles, callback>>

\* The executor polls a spawned future that has been woken: by spawn_local,
\* by what f waits for, or by the drop of the Receiver.
poll(t, first) ==
    /\ ~panicked
    /\ tasks[t].pc = "spawned"
    /\ tasks[t].woken \/ Released(t)
    /\ TaskStep(t, select(tasks[t], Released(t), first))

\* What f waits for happens, and f's waker wakes the spawned future.
wake(t) ==
    /\ ~panicked
    /\ tasks[t].pc = "spawned"
    /\ tasks[t].need > 0
    /\ tasks[t].polls > 0
    /\ TaskStep(t, [tasks[t] EXCEPT !.need = @ - 1, !.woken = TRUE])

\* The caller awaits the Receiver it kept, after the Sender is gone.
recv(t) ==
    /\ ~panicked
    /\ tasks[t].complete_rx = "caller"
    /\ tasks[t].complete_tx = "dropped"
    /\ tasks[t].got = "none"
    /\ TaskStep(t, [tasks[t] EXCEPT
                      !.got = IF tasks[t].data = "none" THEN "canceled" ELSE "ok",
                      !.data = "none"])

NextTask ==
    \/ \E t \in Tasks, need \in 0..MaxYields : spawn_rooted(t, need)
    \/ \E self \in Nodes, t \in Tasks, need \in 0..MaxYields :
          ref_own_spawn(self, t, need)
    \/ \E t \in Tasks : drop_rx(t)
    \/ \E n \in Nodes : drop_El(n)
    \/ \E self \in Nodes : ref_clear(self)
    \/ \E t \in Tasks, first \in {"cancel", "body"} : poll(t, first)
    \/ \E t \in Tasks : wake(t)
    \/ \E t \in Tasks : recv(t)

SpecTask == InitOwn /\ [][NextTask]_vars

\* The executor of spawn_local polls every future that has been woken.
SpecTaskFair ==
    SpecTask /\ \A t \in Tasks : WF_vars(\E first \in {"cancel", "body"} : poll(t, first))

\* ------------------------------------------------------- ResizeObserver
\* A step of the observer, its handles or the browser.
ResizeStep(o, hs, cb) ==
    /\ observer' = o
    /\ handles' = hs
    /\ callback' = cb
    /\ UNCHANGED <<el, parent, index_in_parent, children, local, dom, nextEl,
                   held, alive, panicked, last, calls, limit, torn, nextCell,
                   root, drops, container, before, returned, tasks>>

\* ResizeObserver::new: the browser's observer is made around the closure.
ResizeObserver_new ==
    /\ observer._js_cb = "none"
    /\ ResizeStep([observer EXCEPT !.rc = 1, !._js_cb = "live"], handles, None)

\* Clone of a ResizeObserver: one more strong reference.
ResizeObserver_clone ==
    /\ observer.rc > 0
    /\ observer.rc < MaxClones
    /\ ResizeStep([observer EXCEPT !.rc = @ + 1], handles, None)

\* A drop of a ResizeObserver that takes the closure with it whatever other
\* clones there are.
ResizeObserver_drop_any ==
    /\ observer.rc > 0
    /\ ResizeStep([observer EXCEPT !.rc = @ - 1, !._js_cb = "dropped"],
                  handles, None)

\* Drop of a ResizeObserver: with the last strong reference the
\* ResizeObserver_ goes, and with it the closure; the browser's observer is
\* not told to disconnect.
ResizeObserver_drop ==
    /\ observer.rc > 0
    /\ ResizeStep([observer EXCEPT
                     !.rc = @ - 1,
                     !._js_cb = IF observer.rc = 1 THEN "dropped" ELSE @],
                  handles, None)

\* ResizeObserver::observe: the browser's observer keeps one observation per
\* target; the handle holds the target and a Weak to the ResizeObserver_.
ResizeObserver_observe(h, target) ==
    /\ observer.rc > 0
    /\ handles[h].at = "none"
    /\ ResizeStep([observer EXCEPT !.js_resize_observer = @ \cup {target}],
                  [handles EXCEPT ![h] = [at |-> "held", target |-> target]],
                  None)

\* A Drop of ObserveHandle that disconnects the browser's observer.
ObserveHandle_drop_disconnects(o, target) ==
    IF o.rc = 0 THEN o
    ELSE [o EXCEPT !.js_resize_observer = {}, !.unobserved = @ + 1]

\* A Drop of ObserveHandle that does not look whether the ResizeObserver_
\* is still there.
ObserveHandle_drop_always(o, target) ==
    [o EXCEPT !.js_resize_observer = @ \ {target}, !.unobserved = @ + 1]

\* Drop of ObserveHandle: nothing when the Weak does not upgrade, else
\* unobserve(target), which ends the browser's observation of the target.
ObserveHandle_drop(o, target) ==
    IF o.rc = 0 THEN o
    ELSE [o EXCEPT !.js_resize_observer = @ \ {target}, !.unobserved = @ + 1]

drop_handle(h) ==
    /\ handles[h].at = "held"
    /\ ResizeStep(ObserveHandle_drop(observer, handles[h].target),
                  [handles EXCEPT ![h].at = "dropped"], None)

\* The drop of what El::ref_on_resize stored, the pair (resize_observer,
\* handle): the last ResizeObserver first, then the handle.
drop_pair(h) ==
    /\ handles[h].at = "held"
    /\ observer.rc = 1
    /\ LET o == [observer EXCEPT !.rc = 0, !._js_cb = "dropped"]
       IN ResizeStep(ObserveHandle_drop(o, handles[h].target),
                     [handles EXCEPT ![h].at = "dropped"], None)

\* The browser finds an observed target resized and calls the closure, which
\* calls cb while the closure is there.
resized(target) ==
    /\ target \in observer.js_resize_observer
    /\ ResizeStep(observer, handles,
                  IF observer._js_cb = "live" THEN target ELSE None)

NextResize ==
    \/ ResizeObserver_new
    \/ ResizeObserver_clone
    \/ ResizeObserver_drop
    \/ \E h \in Handles, target \in Targets : ResizeObserver_observe(h, target)
    \/ \E h \in Handles : drop_handle(h)
    \/ \E h \in Handles : drop_pair(h)
    \/ \E target \in Targets : resized(target)

SpecResize == InitOwn /\ [][NextResize]_vars

\* The program replacing nodes under the root and editing them afterwards.
NextInert ==
    \/ \E elements \in Args1 : set_root(elements)
    \/ \E self \in Nodes, other \in Args1 : ref_replace(self, other)
    \/ \E self \in Nodes, c \in Nodes : ref_push(self, c)
    \/ \E self \in Nodes, add \in Args1 : ref_extend(self, add)
    \/ \E self \in Nodes, offset \in 0..MaxChildren, remove \in 0..MaxChildren,
          add \in Args1 : ref_splice(self, offset, remove, add)
    \/ \E self \in Nodes : ref_clear(self)

SpecInert == InitOwn /\ [][NextInert]_vars

\* ------------------------------------------------------------ RefCell
\* A borrow_mut that hands the El_ out whether or not it is borrowed.
borrow_mut_unchecked(s, n) == [s EXCEPT !.borrowed = @ \cup {n}]

\* RefCell::borrow_mut of a node's El_: a panic while it is borrowed.
borrow_mut(s, n) ==
    IF n \in s.borrowed THEN Panic(s) ELSE [s EXCEPT !.borrowed = @ \cup {n}]

\* The mutations of El a callback can call.
InnerOps == {"ref_push", "ref_extend", "ref_splice", "ref_clear", "ref_own",
             "ref_listen", "ref_replace"}

\* A call of one of them on self: each starts with self.0.borrow_mut()
\* (ref_own after its supplier) and gives the borrow back when it returns.
El_call(s, al, self, inner, c) ==
    LET b == borrow_mut(s, self) IN
    IF b.panic THEN b
    ELSE LET r == CASE inner \in {"ref_push", "ref_extend"} ->
                         El_extend(b, self, <<c>>)
                    [] inner = "ref_splice" -> El_splice(b, self, 0, 0, <<c>>)
                    [] inner = "ref_clear" -> El_clear(b, self)
                    [] inner \in {"ref_own", "ref_listen"} -> El_own(b, self)
                    [] inner = "ref_replace" ->
                         El_ref_replace(b, al, self, <<c>>)
         IN [r EXCEPT !.borrowed = @ \ {self}]

\* The model has room for what the call would add.
Room(self, inner) ==
    /\ Len(children[self]) < MaxChildren
    /\ inner \in {"ref_own", "ref_listen"} => nextCell <= NumCells
    /\ inner = "ref_replace" => nextEl < FirstFresh + NumFresh

\* El_::clear or El_::splice of self, borrowed for the call.
Outer(s, self, remove) ==
    LET b == borrow_mut(s, self) IN
    IF remove = 0 THEN El_clear(b, self)
    ELSE El_splice(b, self, 0, remove, <<>>)

\* The teardowns that run inside the call, where the removed children are
\* dropped.
TornInside(s) ==
    {k \in Cells :
        Ev("cell", k) \in Range(drop_all(s, alive \ Sweep(s, held, alive)))}

\* ref_clear (remove = 0) or ref_splice(0, remove, vec![]) of self frees a
\* child whose own value, in its Drop, calls a mutation of self.
reenter(self, remove, inner, c) ==
    /\ Running
    /\ Usable(self)
    /\ c \in alive
    /\ Room(self, inner)
    /\ remove <= Len(children[self])
    /\ ~Outer(Heap, self, remove).panic
    /\ TornInside(Outer(Heap, self, remove)) # {}
    /\ Commit(El_call(Outer(Heap, self, remove), alive, self, inner, c), held,
              Call(IF remove = 0 THEN "ref_clear_reentered"
                   ELSE "ref_splice_reentered", self, 0, remove, <<c>>))

\* self.ref_own(supplier) with a supplier that calls ref_push(c) or
\* ref_clear() on the El it is handed: the supplier runs first, then the
\* value is pushed onto local.
ref_own_nested(self, inner, c) ==
    /\ Running
    /\ Usable(self)
    /\ Usable(c)
    /\ Room(self, inner)
    /\ nextCell <= NumCells
    /\ LET s1 == El_call(Heap, alive, self, inner, c)
       IN Commit(IF s1.panic THEN s1 ELSE El_own(s1, self), held,
                 Call(IF inner = "ref_push" THEN "ref_own_push"
                      ELSE "ref_own_clear", self, 0, 0, <<c>>))

NextReenter ==
    \/ \E self \in Nodes : ref_own(self)
    \/ \E self \in Nodes, c \in Nodes : ref_push(self, c)
    \/ \E n \in Nodes : drop_El(n)
    \/ \E self \in Nodes, remove \in 0..MaxChildren, inner \in InnerOps,
          c \in Nodes : reenter(self, remove, inner, c)
    \/ \E self \in Nodes, inner \in {"ref_push", "ref_clear"}, c \in Nodes :
          ref_own_nested(self, inner, c)

SpecReenter == InitOwn /\ [][NextReenter]_vars

\* ------------------------------------------------------- attach contract
\* The caller-side contract of the attach operations: the nodes handed over
\* are pairwise different, carry no parent reference and are nobody's child.
Distinct(s) == \A i, j \in 1..Len(s) : i # j => s[i] # s[j]

Unattached(s) ==
    /\ Distinct(s)
    /\ \A i \in 1..Len(s) :
          /\ parent[s[i]] = None
          /\ \A p \in alive : s[i] \notin Range(children[p])

\* The program driven by callers that keep the attach contract.
NextContract ==
    \/ \E self \in Nodes, c \in Nodes : Unattached(<<c>>) /\ ref_push(self, c)
    \/ \E self \in Nodes, add \in Args : Unattached(add) /\ ref_extend(self, add)
    \/ \E self \in Nodes, offset \in 0..MaxChildren, remove \in 0..MaxChildren,
          add \in Args : Unattached(add) /\ ref_splice(self, offset, remove, add)
    \/ \E self \in Nodes : ref_clear(self)
    \/ \E self \in Nodes, other \in Args :
          Unattached(other) /\ ref_replace(self, other)
    \/ \E self \in Nodes : ref_remove(self)
    \/ \E n \in Nodes : drop_El(n)

SpecContract == Init /\ [][NextContract]_vars

\* ------------------------------------------------------ observed notions
\* The surface children of node p's element, as Element::children() lists
\* them, and the elements of p's logical children in order.
SurfaceChildren(p) == dom[el[p]]

LogicalChildren(p) == [i \in 1..Len(children[p]) |-> el[children[p][i]]]

SurfaceAgrees(p) == SurfaceChildren(p) = LogicalChildren(p)

\* The parent reference of n is present and resolves to a live node.
HasParent(n) == parent_upgrade(Heap, alive, n) # None

\* n is a child of some live node.
IsChild(n) == \E p \in alive : n \in Range(children[p])

AttachOps == {"ref_push", "ref_extend", "ref_splice"}

\* ----------------------------------------------------------------- claims

\* C1: after each attach (push/extend), splice or detach operation the
\* logical children sequence of every live node and the surface's children
\* sequence of its element have the same length and the same order.
C1_SurfaceEqualsChildren ==
    [][(last'.op \in AttachOps \cup {"ref_remove"} /\ ~panicked')
         => \A p \in alive' : SurfaceAgrees(p)']_vars

\* C2: after every mutating call, for every node P and every index i of P's
\* children sequence, the recorded sibling position of P.children[i] is i.
C2_PositionsAreIndices ==
    ~panicked =>
        \A p \in alive : \A i \in 1..Len(children[p]) :
            index_in_parent[children[p][i]] = i - 1

\* C3: every live node whose parent reference resolves to a live parent P is
\* the node found in P's children sequence at its recorded position.
C3_ParentHoldsChildAtPosition ==
    ~panicked =>
        \A n \in alive :
            HasParent(n) =>
                /\ index_in_parent[n] < Len(children[parent[n]])
                /\ children[parent[n]][index_in_parent[n] + 1] = n

\* C4: a node appears in at most one children sequence across all nodes, and
\* at most once within that sequence.
C4_AtMostOneParent ==
    \A n \in Nodes :
        /\ Cardinality({p \in alive : n \in Range(children[p])}) <= 1
        /\ \A p \in alive : Count(children[p], n) <= 1

\* C5: push, extend or splice with an argument node that already has a
\* parent fails, and neither parent's children sequence, nor the surface, nor
\* the argument's parent reference and position are changed.
C5_AttachAttachedFailsUnchanged ==
    [][(/\ last'.op \in AttachOps
        /\ \E i \in 1..Len(last'.add) : HasParent(last'.add[i]))
         => /\ panicked'
            /\ UNCHANGED <<children, dom, parent, index_in_parent>>]_vars

\* C6: a splice with offset > child count or offset + remove > child count
\* fails loudly, and at the point of failure the node's logical children
\* sequence and its surface children sequence still agree.
C6_OutOfRangeSpliceFailsInSync ==
    [][(/\ last'.op = "ref_splice"
        /\ \/ last'.offset > Len(children[last'.self])
           \/ last'.offset + last'.remove > Len(children[last'.self]))
         => /\ panicked'
            /\ LET self == last'.self IN
               dom'[el'[self]] =
                 [i \in 1..Len(children'[self]) |-> el'[children'[self][i]]]]_vars

\* C7: an in-range splice(offset, remove, add) of detached nodes on a node
\* with children S that returns leaves children and surface equal to
\* S[0..offset] ++ add ++ S[offset+remove..]; removed children have no
\* parent; add[i] has the node as parent and position offset+i; children
\* before offset keep their positions.
C7_SpliceResult ==
    [][(/\ last'.op = "ref_splice"
        /\ last'.offset + last'.remove <= Len(children[last'.self])
        /\ \A i \in 1..Len(last'.add) : parent[last'.add[i]] = None
        /\ ~panicked')
         => LET self == last'.self
                offset == last'.offset
                remove == last'.remove
                add == last'.add
                S == children[self]
                new == SubSeq(S, 1, offset) \o add
                         \o SubSeq(S, offset + remove + 1, Len(S))
            IN /\ children'[self] = new
               /\ dom'[el'[self]] = [i \in 1..Len(new) |-> el'[new[i]]]
               /\ \A i \in (offset + 1)..(offset + remove) :
                     S[i] \in alive' => parent'[S[i]] = None
               /\ \A i \in 1..Len(add) :
                     /\ parent'[add[i]] = self
                     /\ index_in_parent'[add[i]] = offset + (i - 1)
               /\ \A i \in 1..offset :
                     index_in_parent'[S[i]] = index_in_parent[S[i]]]_vars

\* C8: detach of N removes exactly N from its live parent's children and
\* clears N's parent reference; when N is not a child of any node the call
\* changes no children sequence and no surface children and does not fail.
C8_DetachOrNoOp ==
    [][last'.op = "ref_remove"
         => LET n == last'.self IN
            /\ ~panicked'
            /\ IF IsChild(n)
               THEN /\ \A p \in alive :
                          children'[p] = Without(children[p], n)
                    /\ parent'[n] = None
               ELSE UNCHANGED <<children, dom>>]_vars

\* C9: clear leaves the node's children sequence and its surface children
\* empty, and every former child that is still alive has no parent reference.
C9_ClearDetachesChildren ==
    [][last'.op = "ref_clear"
         => LET self == last'.self IN
            /\ ~panicked'
            /\ children'[self] = <<>>
            /\ dom'[el'[self]] = <<>>
            /\ \A c \in Range(children[self]) :
                  c \in alive' => parent'[c] = None]_vars

\* C10: replace(other) on a node N whose parent reference resolves to a live
\* parent P at position k, when it returns, has put the nodes of other in N's
\* place in P's children and surface, detached N, and left every child of P
\* with a position equal to its index.
C10_ReplaceInPlace ==
    [][(last'.op = "ref_replace" /\ HasParent(last'.self) /\ ~panicked')
         => LET n == last'.self
                other == last'.add
                P == parent[n]
                k == index_in_parent[n]
                S == children[P]
                new == SubSeq(S, 1, k) \o other \o SubSeq(S, k + 2, Len(S))
            IN /\ k < Len(S) /\ S[k + 1] = n
               /\ children'[P] = new
               /\ dom'[el'[P]] = [i \in 1..Len(new) |-> el'[new[i]]]
               /\ parent'[n] = None
               /\ \A i \in 1..Len(new) : index_in_parent'[new[i]] = i - 1]_vars

\* The own / listen values in a local list, and the nodes its values own.
CellsIn(loc) == {loc[i].value.cell : i \in 1..Len(loc)} \ {NoCell}

ElsIn(loc) == UNION {Range(loc[i].value.els) : i \in 1..Len(loc)}

\* n has a strong owner other than node p: a handle, the root slot, or a
\* live node different from p.
OwnedBesides(p, n) ==
    \/ held[n]
    \/ n \in Range(root.value.els)
    \/ \E q \in alive \ {p} : n \in Range(children[q]) \cup ElsIn(local[q])

\* C11: replace(other) on a node N without a parent, when it returns, has
\* released N's previous children (those nobody else owns are freed) and run
\* the teardown of N's previous Resource Cells, has left N with exactly one
\* owned resource holding the replacement nodes and with no logical
\* children; and the nodes a live node's resources hold are alive.
C11_PseudoReplace ==
    [][/\ (last'.op = "ref_replace" /\ ~HasParent(last'.self) /\ ~panicked')
          => LET n == last'.self
                 other == last'.add
             IN /\ children'[n] = <<>>
                /\ local'[n] = <<scope_any(VecEl(other))>>
                /\ \A k \in CellsIn(local[n]) : torn'[k] = torn[k] + 1
                /\ \A c \in Range(children[n]) :
                      (~OwnedBesides(n, c) /\ c \notin Range(other))
                          => c \notin alive'
       /\ ~panicked' => \A n \in alive' : ElsIn(local'[n]) \subseteq alive']_vars

\* C11 witness: a pseudo-replacement by one node has returned; it tore a
\* Resource Cell of the node down and freed a previous child.
C11_Witness ==
    /\ last.op = "ref_replace" /\ ~panicked
    /\ Len(last.add) = 1
    /\ local[last.self] = <<scope_any(VecEl(last.add))>>
    /\ drops # <<>> /\ drops[1].kind = "cell"
    /\ \E c \in Nodes : Ev("el", c) \in Range(drops)

\* The Resource Cells some live node or the root slot still holds.
CellsHeld ==
    (UNION {CellsIn(local[n]) : n \in alive}) \cup ({root.value.cell} \ {NoCell})

\* C12: when a node loses its last strong owner, its element handle is
\* released once, each of its Resource Cells runs its teardown once, and each
\* node it owned that has no other strong owner is freed with it; a freed
\* node stays freed, and a Resource Cell handed out so far has run its
\* teardown once if nothing holds it any more and not at all otherwise.
C12_CascadeOnce ==
    [][~panicked' =>
         /\ alive' \subseteq alive
         /\ \A n \in Nodes :
               CountEv(drops', Ev("el", n)) = IF n \in alive \ alive' THEN 1 ELSE 0
         /\ \A n \in alive \ alive' :
               /\ \A k \in CellsIn(local[n]) :
                     CountEv(drops', Ev("cell", k)) = 1 /\ torn'[k] = 1
               /\ \A c \in Range(children[n]) \cup ElsIn(local[n]) :
                     c \in alive' =>
                        \/ held'[c]
                        \/ c \in Range(root'.value.els)
                        \/ \E q \in alive' :
                              c \in Range(children'[q]) \cup ElsIn(local'[q])
         /\ \A k \in 1..(nextCell' - 1) :
               torn'[k] = IF k \in CellsHeld' THEN 0 ELSE 1]_vars

\* C12 witness: a call released the last owner of a node that had a Resource
\* Cell and a child nobody else owned; both nodes were freed.
C12_Witness ==
    /\ ~panicked
    /\ \E n, c \in Nodes \ alive, k \in Cells :
          /\ n # c
          /\ Ev("el", n) \in Range(drops)
          /\ Ev("el", c) \in Range(drops)
          /\ Ev("cell", k) \in Range(drops)
          /\ drops[1] = Ev("el", n)

\* The place of event e in a log that holds it.
Pos(log, e) == CHOOSE i \in 1..Len(log) : log[i] = e

RECURSIVE Below(_)
Below(S) ==
    LET S1 == S \cup {c \in Nodes : \E p \in S : c \in Range(children[p])}
    IN IF S1 = S THEN S ELSE Below(S1)

Rooted(n) == n \in Below({m \in Nodes : held[m] \/ m \in Range(root.value.els)})

\* C14: a value attached with own or listen is still in its node's resource
\* list and has not run its teardown after any push, extend, splice, clear,
\* detach or handle drop that leaves the node in a rooted tree.
C14_OwnedValueLives ==
    [][\A n \in alive : \A k \in CellsIn(local[n]) :
          Rooted(n)' => (torn'[k] = 0 /\ k \in CellsIn(local'[n]))]_vars

\* C14 witness: a node with an attached value is kept only by its parent, a
\* splice has just been applied to another node, and the value is intact.
C14_Witness ==
    /\ ~panicked
    /\ last.op = "ref_splice"
    /\ \E n \in alive : \E k \in CellsIn(local[n]) :
          /\ ~held[n] /\ Rooted(n) /\ IsChild(n)
          /\ last.self # n
          /\ torn[k] = 0

\* C15: a node that no handle, no root slot and no live node's children or
\* resources own is freed, also while a child of it is still held; a weak
\* handle to it and the parent reference of such a child resolve to absent.
C15_ParentNotKeptByChild ==
    ~panicked =>
        \A p \in Nodes :
            (/\ ~held[p]
             /\ p \notin Range(root.value.els)
             /\ \A q \in alive : p \notin Range(children[q]) \cup ElsIn(local[q]))
              => /\ p \notin alive
                 /\ WeakEl_upgrade(alive, p) = None
                 /\ \A c \in alive :
                       parent[c] = p => parent_upgrade(Heap, alive, c) = None

\* C15 witness: a parent has been freed while its child, still held by the
\* application, keeps the weak reference to it.
C15_Witness ==
    /\ ~panicked
    /\ \E p \in Nodes \ alive, c \in alive : held[c] /\ parent[c] = p

\* C16: whenever the Container's operations have returned normally, the
\* children of the container's el are, position for position, the backing
\* nodes of the entries.
C16_ContainerMirror ==
    (HasContainer /\ ~panicked) => children[container.el] = container.entries

\* C16 witness: remove(1) on a container of three entries has returned the
\* middle entry and left the two others, in order, on both sides.
C16_Witness ==
    /\ ~panicked
    /\ last.op = "Container_remove" /\ last.offset = 1
    /\ Len(container.entries) = 2
    /\ returned \notin Range(container.entries) \cup {None}
    /\ children[container.el] = container.entries
    /\ dom[el[container.el]] =
          [i \in 1..2 |-> el[container.entries[i]]]

\* C17: a push of an entry with a detached backing node followed by pop
\* returns that entry and leaves the entries, the children of the
\* container's el and its surface children as they were before the push;
\* pop on an empty container returns nothing and changes nothing.
C17_PushPopRestores ==
    [][/\ (/\ last.op = "Container_push" /\ ~panicked /\ before.detached
           /\ last'.op = "Container_pop")
          => /\ ~panicked'
             /\ returned' = last.add[1]
             /\ container'.entries = before.entries
             /\ children'[container.el] = before.children
             /\ dom'[el'[container.el]] = before.dom
       /\ (last'.op = "Container_pop" /\ container.entries = <<>>)
          => /\ ~panicked'
             /\ returned' = None
             /\ UNCHANGED <<container, children, dom>>]_vars

ContainerOps ==
    {"Container_clear", "Container_push", "Container_extend", "Container_insert",
     "Container_splice", "Container_pop", "Container_remove"}

\* C18: when a Container operation fails, the entries are as they were
\* before the call and still equal the children of the container's el: the
\* entries are never ahead of them.
C18_EntriesNeverAhead ==
    [][(last'.op \in ContainerOps /\ panicked')
         => /\ container'.entries = container.entries
            /\ children'[container.el] = container'.entries]_vars

\* C18 witness: an insert at an index past the end of a container that has
\* entries has failed.
C18_Witness ==
    /\ panicked
    /\ last.op = "Container_insert"
    /\ container.entries # <<>>
    /\ last.offset > Len(container.entries)

RootOps == {"set_root", "set_root_replace", "set_root_non_dom"}

\* n has a strong owner.
HasOwner(n) ==
    \/ held[n]
    \/ n \in Range(root.value.els)
    \/ \E q \in alive : n \in Range(children[q]) \cup ElsIn(local[q])

\* C19: what set_root, set_root_replace or set_root_non_dom stored is alive
\* and not torn down, and stays in the slot over every other call; the next
\* of the three calls that returns leaves its own argument in the slot, runs
\* the teardown of the previous value, and frees every node of the previous
\* tree that has no other strong owner, with the teardown of its Resource
\* Cells.
C19_RootSlot ==
    [][~panicked' =>
         /\ Range(root'.value.els) \subseteq alive'
         /\ root'.value.cell # NoCell => torn'[root'.value.cell] = 0
         /\ last'.op \notin RootOps => root' = root
         /\ last'.op \in RootOps =>
               /\ root'.value.els = last'.add
               /\ root.value.cell # NoCell => torn'[root.value.cell] = 1
               /\ \A n \in alive' : HasOwner(n)'
               /\ \A n \in alive \ alive' :
                     \A k \in CellsIn(local[n]) : torn'[k] = 1]_vars

\* C19 witness: a call that replaced the contents of the root slot freed a
\* node of the previous contents and tore its Resource Cell down.
C19_Witness ==
    /\ ~panicked
    /\ last.op \in RootOps
    /\ \E n \in Nodes \ alive : Ev("el", n) \in Range(drops)
    /\ \E k \in Cells : Ev("cell", k) \in Range(drops) /\ torn[k] = 1

\* The result of f was delivered into the channel.
Completed(t) == tasks[t].sent = "ok"

\* The cancel arm of the select! ran.
Cancelled(t) == tasks[t].branch = "cancel"

\* C20: a spawned future never has both outcomes, a delivered result and a
\* cancellation; once it has one of them it keeps it and never gets the
\* other; and what the caller received from the Receiver never changes and
\* agrees with the outcome.
C20_OneOutcome ==
    [][\A t \in Tasks :
         /\ ~(Completed(t)' /\ Cancelled(t)')
         /\ Completed(t) => Completed(t)'
         /\ Cancelled(t) => Cancelled(t)'
         /\ tasks[t].got # "none" => tasks'[t].got = tasks[t].got
         /\ tasks'[t].got = "ok" => Completed(t)'
         /\ tasks'[t].got = "canceled" => ~Completed(t)']_vars

\* C20 witness: one future was polled with both arms of the select! Ready
\* and the cancel arm ran; the result of another was delivered and received,
\* and its Receiver was dropped afterwards.
C20_Witness ==
    \E t \in Tasks, u \in Tasks :
        /\ tasks[t].both /\ Cancelled(t)
        /\ Completed(u) /\ tasks[u].got = "ok" /\ Released(u)

\* f produced its result and the body arm of the select! ran.
BodyCompleted(t) == tasks[t].branch = "body"

\* The Receiver is dropped and the spawned future has not been polled yet.
ReleasedUnpolled(t) ==
    tasks[t].pc = "spawned" /\ Released(t) /\ tasks[t].polls = 0

\* C21: a spawned future whose Receiver was dropped before its first poll
\* never runs f to its result: no poll of it takes the body arm, and no
\* result is delivered, whichever arm the select! polls first.
C21_ReleasedFirstNeverCompletes ==
    [][\A t \in Tasks :
         ReleasedUnpolled(t) => ~BodyCompleted(t)' /\ ~Completed(t)']_vars

\* The Receiver of t is dropped by this step.
Releases(t) == ~Released(t) /\ Released(t)'

\* C22: when f produces its result while the Receiver is still held, the
\* result is delivered into the channel; and a drop of the Receiver after
\* that changes nothing of the task: the outcome stays the delivered result,
\* what the channel holds or the caller received is as before, and the
\* cancel arm does not run, now or later.
C22_CompleteThenReleaseNoOp ==
    [][\A t \in Tasks :
         /\ (~Released(t) /\ ~BodyCompleted(t) /\ BodyCompleted(t)')
               => Completed(t)' /\ tasks'[t].data = "r"
         /\ (Completed(t) /\ Releases(t))
               => /\ [tasks'[t] EXCEPT !.complete_rx = "dropped"]
                       = [tasks[t] EXCEPT !.complete_rx = "dropped"]
                  /\ tasks'[t].pc = "done"
         /\ Completed(t) => Completed(t)' /\ ~Cancelled(t)']_vars

\* C22 witness: a result was delivered and received, and the Receiver was
\* dropped by the most recent call.
C22_Witness ==
    /\ last.op = "drop_rx"
    /\ Completed(last.self)
    /\ tasks[last.self].got = "ok"
    /\ Released(last.self)
    /\ ~Cancelled(last.self)

\* f has been polled and is waiting for something that has not happened.
Suspended(t) ==
    tasks[t].pc = "spawned" /\ tasks[t].polls > 0 /\ tasks[t].need > 0

\* C27: with an executor that polls every woken future, a spawned future
\* whose Receiver is dropped while f is suspended ends with the cancel arm,
\* and f is not polled after that; and a spawned future whose f is Ready
\* ends with its result delivered unless its Receiver is dropped.
C27_CancelLiveness ==
    /\ \A t \in Tasks : (Suspended(t) /\ Released(t)) ~> Cancelled(t)
    /\ \A t \in Tasks :
          (tasks[t].pc = "spawned" /\ tasks[t].need = 0)
             ~> (Completed(t) \/ Released(t))
    /\ [][\A t \in Tasks :
            Cancelled(t) => tasks'[t].polls = tasks[t].polls]_vars

\* This step drops the handle h and no ResizeObserver.
DropsHandle(h) ==
    /\ handles[h].at = "held"
    /\ handles'[h].at = "dropped"
    /\ observer'.rc = observer.rc

\* C23: while the ResizeObserver is there, the drop of a handle ends the
\* observation of that handle's target and nothing else: every other
\* observed target stays observed, in particular the different target of
\* another held handle, and the closure, so the target's callbacks, stay.
C23_ReleaseOnlyOwnTarget ==
    [][\A h \in Handles :
         (DropsHandle(h) /\ observer.rc > 0)
           => /\ observer'.js_resize_observer
                    = observer.js_resize_observer \ {handles[h].target}
              /\ observer'._js_cb = "live"
              /\ \A g \in Handles \ {h} : handles'[g] = handles[g]]_vars

\* C23 witness: of two handles for different targets one has been dropped,
\* and after that cb was called for the target of the other.
C23_Witness ==
    \E h \in Handles, g \in Handles :
        /\ handles[h].at = "dropped"
        /\ handles[g].at = "held"
        /\ handles[g].target # handles[h].target
        /\ handles[h].target \notin observer.js_resize_observer
        /\ callback = handles[g].target

\* C24: the drop of a handle after the ResizeObserver_ is gone calls no
\* unobserve, raises nothing and changes nothing but the handle.
C24_StaleHandleNoOp ==
    [][\A h \in Handles :
         (DropsHandle(h) /\ observer.rc = 0)
           => /\ observer' = observer
              /\ ~panicked'
              /\ \A g \in Handles \ {h} : handles'[g] = handles[g]]_vars

\* C24 witness: the ResizeObserver_ is gone, a handle was dropped after it,
\* and the browser's observer still has the handle's target.
C24_Witness ==
    \E h \in Handles :
        /\ handles[h].at = "dropped"
        /\ observer._js_cb = "dropped"
        /\ observer.unobserved = 0
        /\ handles[h].target \in observer.js_resize_observer

\* C28: while an ObserveHandle is held, the ResizeObserver_ and its closure
\* are there.
C28_HandleKeepsSubscription ==
    (\E h \in Handles : handles[h].at = "held") => observer._js_cb = "live"

\* C28, amended: the ResizeObserver_ and its closure are there exactly as
\* long as a ResizeObserver is held, whichever handles are held or dropped.
C28_StrongKeepsSubscription ==
    /\ observer.rc > 0 => observer._js_cb = "live"
    /\ observer._js_cb = "live" => observer.rc > 0

\* C28 witness: a handle has been dropped and its target unobserved, a
\* ResizeObserver is still held and the closure is there.
C28_Witness ==
    /\ observer.rc > 0
    /\ observer._js_cb = "live"
    /\ observer.unobserved > 0
    /\ \A h \in Handles : handles[h].at = "dropped"

\* C29: while the ResizeObserver is there, the drop of one of two handles
\* for the same target leaves the target observed.
C29_SameTargetIndependent ==
    [][\A h \in Handles, g \in Handles :
         (/\ DropsHandle(h)
          /\ observer.rc > 0
          /\ g # h
          /\ handles[g].at = "held"
          /\ handles[g].target = handles[h].target)
           => handles[g].target \in observer'.js_resize_observer]_vars

ReenteredOps == {"ref_clear_reentered", "ref_splice_reentered"}

SupplierOps == {"ref_own_push", "ref_own_clear"}

Hollowed(n) == el[n] >= FirstFresh

EditOps == {"ref_push", "ref_extend", "ref_splice", "ref_clear"}

\* C26: a push, extend, splice or clear on a node that a pseudo-replacement
\* has hollowed out, when it returns, leaves the surface as it was where the
\* replacements were put: the children of the element that holds a
\* replacement, and the children of the replacement itself.
C26_HollowedInert ==
    [][\A n \in Nodes :
         (/\ last'.op \in EditOps
          /\ ~panicked'
          /\ n = last'.self
          /\ Hollowed(n))
           => \A r \in ElsIn(local[n]) :
                 /\ dom'[el[r]] = dom[el[r]]
                 /\ DomParent(dom, el[r]) # NoEl
                       => dom'[DomParent(dom, el[r])]
                             = dom[DomParent(dom, el[r])]]_vars

====
